---- MODULE Spec2Model ----
(***************************************************************************)
(* Verification model of the polymer orchestration core:                   *)
(*   - entity_orchestrator (entity counter, system registry, type router), *)
(*   - particle_parallel_for (fork-join partitioner),                      *)
(*   - gl_particle_system (add / clear / set_trail_count / update).        *)
(* The code lives in lib-engine/gfx/gl/gl-particle-system.cpp.             *)
(***************************************************************************)
EXTENDS Integers, Sequences, FiniteSets, TLC

(***************************************************************************)
(* Bounds of the model.                                                    *)
(***************************************************************************)
NumThreads == 2
MaxCallsPerThread == 3
NumSystemTypes == 2
NumComponentTypes == 2
MaxInstances == 3
MaxN == 5
MaxHint == 3
MaxHardware == 2
MaxParticles == 2
NumParticleKinds == 2
MaxTrail == 1
MaxUpdates == 4
NumDt == 1
MaxEntities == 2
NumOwnedTypes == 2
MaxData == 1
MaxPathLen == 4
MaxSceneEntities == 1
MaxSceneSystems == 1

\* the worker count used when hardware_concurrency() reports 0
DefaultConcurrency == 4

Threads == 1..NumThreads

\* poly_typeid values of the system types and of the component types in play
SystemTypes == 1..NumSystemTypes
ComponentTypes == 1..NumComponentTypes
NoType == 0

\* base_system * values: nullptr and the addresses `new` hands out
nullptr == 0
Pointers == 1..MaxInstances

\* createMutex is free
NoThread == 0

\* entity kInvalidEntity = 0
kInvalidEntity == 0

VARIABLES
    \* ---- entity_orchestrator ----
    createMutex,        \* the thread holding createMutex, or NoThread
    entity_counter,     \* entity entity_counter{ 0 }
    ce_pc,              \* per thread: position inside create_entity
    ce_reg,             \* per thread: value loaded from entity_counter by ++
    ce_e,               \* per thread: the local `const entity e`
    returned            \* per thread: the values its create_entity calls returned, in call order

VARIABLES
    system_type_map,    \* unordered_map<poly_typeid, poly_typeid>: set of <<def_type, system_type>>
    systems,            \* unordered_map<poly_typeid, base_system *>: set of <<system_type, pointer>>
    heap,               \* the system instances allocated with new and not deleted
    cs_pc,              \* position inside a running create_system / new-expression
    cs_mode,            \* "create_system" or "new" (a system constructed by the caller itself)
    cs_T,               \* the system type under construction
    cs_ptr,             \* T * ptr
    cs_had,             \* the registry's entries for cs_T when the running call began
    last_op,            \* the call that has just returned: its arguments, and the entries
                        \* its table had for its key when it was called
    alive               \* the orchestrator is constructed and not yet destroyed

VARIABLES
    \* ---- particle_parallel_for(n, function, target_concurrency) ----
    pf_pc,                  \* position of the calling thread inside particle_parallel_for
    pf_n,                   \* int n
    pf_target,              \* int target_concurrency
    pf_hw,                  \* what std::thread::hardware_concurrency() reports
    hint,                   \* const int hint
    n_threads,              \* const int n_threads
    n_max_tasks_per_thread, \* const int n_max_tasks_per_thread
    n_lacking_tasks,        \* const int n_lacking_tasks
    pf_j,                   \* the loop variable j of the start loop; the position of the join loop
    threads,                \* std::vector<std::thread> threads, each with the state of its inner_loop
    calls                   \* how often function(k) has been invoked, per index k

VARIABLES
    \* ---- gl_particle_system ----
    particles,          \* std::vector<particle>: [kind, steps] per particle
    instances,          \* std::vector<instance_data>: [kind, steps, written] per instance
    instanceBuffers,    \* element count of the ping_pong_buffer, 0 while the pointer is null
    trail,              \* size_t trail
    up_pc,              \* position inside update
    up_i,               \* the loop variable i
    up_trail_idx,       \* the loop variable trail_idx
    up_count,           \* how many update calls have passed the two size checks
    up_input,           \* the particle array and dt update was entered with
    out_of_bounds,      \* an element outside a vector has been accessed in the running update
    uploaded,           \* what the last glNamedBufferSubDataEXT handed to the backend
    runs,               \* the completed updates: input and uploaded buffer
    touched,            \* the element accesses of the running update's loop
    \* ---- a system implementing base_system ----
    components,         \* the components the system holds: <<entity, type, data>>
    sys_last,           \* the create or destroy call that has just returned
    \* ---- normalize_path(std::string & path) ----
    np_pc,              \* position inside normalize_path
    path,               \* std::string & path, as a sequence of characters
    np_input,           \* the value of path when the running call began
    separator           \* constexpr char separator of the build

entityVars == <<createMutex, entity_counter, ce_pc, ce_reg, ce_e, returned>>
lifeVars == <<alive>>
registryVars == <<system_type_map, systems, heap, cs_pc, cs_mode, cs_T, cs_ptr, cs_had, last_op,
                  lifeVars>>

partitionVars == <<pf_pc, pf_n, pf_target, pf_hw, hint, n_threads, n_max_tasks_per_thread,
                   n_lacking_tasks,
                   pf_j, threads, calls>>

particleVars == <<particles, instances, instanceBuffers, trail, up_pc, up_i, up_trail_idx,
                  up_count, up_input, out_of_bounds, uploaded, runs, touched>>

systemVars == <<components, sys_last>>

pathVars == <<np_pc, path, np_input, separator>>

vars == <<entityVars, registryVars, partitionVars, particleVars, systemVars, pathVars>>

(***************************************************************************)
(* entity_orchestrator::create_entity                                      *)
(*     std::lock_guard<std::mutex> guard(createMutex);                     *)
(*     const entity e = ++entity_counter;                                  *)
(*     return e;                                                           *)
(* entity is uint64_t; the model caps the number of calls far below 2^64,  *)
(* so the counter never wraps within the bounds.                           *)
(***************************************************************************)

\* a lock that does not wait for the mutex to be free
lock_guard_nowait(t) ==
    createMutex' = t

\* std::lock_guard constructor: blocks until createMutex is free, then owns it
lock_guard(t) ==
    /\ createMutex = NoThread
    /\ createMutex' = t

\* a guard that goes out of scope without unlocking
lock_guard_destroy_keep(t) ==
    createMutex' = createMutex

\* std::lock_guard destructor: unlocks createMutex if the guard owns it
lock_guard_destroy(t) ==
    createMutex' = IF createMutex = t THEN NoThread ELSE createMutex

\* post-increment: yields the old value
post_increment(loaded) ==
    [counter |-> loaded + 1, value |-> loaded]

\* ++entity_counter: stores loaded + 1 and yields the stored value
pre_increment(loaded) ==
    [counter |-> loaded + 1, value |-> loaded + 1]

EntityInit ==
    /\ createMutex = NoThread
    /\ entity_counter = 0
    /\ ce_pc = [t \in Threads |-> "idle"]
    /\ ce_reg = [t \in Threads |-> 0]
    /\ ce_e = [t \in Threads |-> kInvalidEntity]
    /\ returned = [t \in Threads |-> <<>>]

\* thread t calls create_entity
CreateEntityCall(t) ==
    /\ ce_pc[t] = "idle"
    /\ Len(returned[t]) < MaxCallsPerThread
    /\ ce_pc' = [ce_pc EXCEPT ![t] = "waiting"]
    /\ UNCHANGED <<createMutex, entity_counter, ce_reg, ce_e, returned>>
    /\ UNCHANGED <<registryVars, partitionVars, particleVars, systemVars, pathVars>>

\* std::lock_guard<std::mutex> guard(createMutex): t waits here until it owns the mutex
CreateEntityLock(t) ==
    /\ ce_pc[t] = "waiting"
    /\ lock_guard(t)
    /\ ce_pc' = [ce_pc EXCEPT ![t] = "locked"]
    /\ UNCHANGED <<entity_counter, ce_reg, ce_e, returned>>
    /\ UNCHANGED <<registryVars, partitionVars, particleVars, systemVars, pathVars>>

\* the load half of ++entity_counter
CreateEntityLoad(t) ==
    /\ ce_pc[t] = "locked"
    /\ ce_reg' = [ce_reg EXCEPT ![t] = entity_counter]
    /\ ce_pc' = [ce_pc EXCEPT ![t] = "loaded"]
    /\ UNCHANGED <<createMutex, entity_counter, ce_e, returned>>
    /\ UNCHANGED <<registryVars, partitionVars, particleVars, systemVars, pathVars>>

\* the store half of ++entity_counter, and the initialisation of e
CreateEntityStore(t) ==
    /\ ce_pc[t] = "loaded"
    /\ entity_counter' = pre_increment(ce_reg[t]).counter
    /\ ce_e' = [ce_e EXCEPT ![t] = pre_increment(ce_reg[t]).value]
    /\ ce_pc' = [ce_pc EXCEPT ![t] = "stored"]
    /\ UNCHANGED <<createMutex, ce_reg, returned>>
    /\ UNCHANGED <<registryVars, partitionVars, particleVars, systemVars, pathVars>>

\* return e; the guard's destructor releases createMutex
CreateEntityReturn(t) ==
    /\ ce_pc[t] = "stored"
    /\ returned' = [returned EXCEPT ![t] = Append(@, ce_e[t])]
    /\ lock_guard_destroy(t)
    /\ ce_pc' = [ce_pc EXCEPT ![t] = "idle"]
    /\ UNCHANGED <<entity_counter, ce_reg, ce_e>>
    /\ UNCHANGED <<registryVars, partitionVars, particleVars, systemVars, pathVars>>

(***************************************************************************)
(* std::unordered_map, as a set of <<key, value>> pairs.                   *)
(***************************************************************************)
map_find(m, k) == {p \in m : p[1] = k}
map_has(m, k) == map_find(m, k) # {}
map_at(m, k) == (CHOOSE p \in m : p[1] = k)[2]
\* an assignment that drops the elements of the other keys
map_assign_clear(m, k, v) == {<<k, v>>}

\* m[k] = v
map_assign(m, k, v) == {p \in m : p[1] # k} \cup {<<k, v>>}
\* m.emplace(k, v): inserts only when no element has key k
map_emplace(m, k, v) == IF map_has(m, k) THEN m ELSE m \cup {<<k, v>>}

(***************************************************************************)
(* entity_orchestrator: system registry and type router                    *)
(***************************************************************************)

\* a registration that replaces the registered instance
add_system_overwrite(reg, system_type, system) ==
    IF system = nullptr THEN reg
    ELSE map_assign(reg, system_type, system)

\* void add_system(poly_typeid system_type, base_system * system)
add_system(reg, system_type, system) ==
    IF system = nullptr THEN reg
    ELSE IF ~map_has(reg, system_type) THEN map_emplace(reg, system_type, system)
    ELSE reg

\* a routing declaration that keeps an existing route
register_system_for_type_keep(m, system_type, def_type) ==
    map_emplace(m, def_type, system_type)

\* void register_system_for_type(poly_typeid system_type, poly_hash_value def_type)
register_system_for_type(m, system_type, def_type) ==
    map_assign(m, def_type, system_type)

NoOp == [name |-> "none", T |-> NoType, s |-> nullptr, C |-> NoType, had |-> {}]

RegistryInit ==
    /\ system_type_map = {}
    /\ systems = {}
    /\ heap = {}
    /\ cs_pc = "idle"
    /\ cs_mode = "none"
    /\ cs_T = NoType
    /\ cs_ptr = nullptr
    /\ cs_had = {}
    /\ last_op = NoOp
    /\ alive = TRUE

\* operator new: an address not in use
fresh_pointer == CHOOSE p \in Pointers : p \notin heap /\ \A q \in Pointers \ heap : p <= q

\* create_system<T>(args): T * ptr = new T(args...) begins; T's constructor runs
CreateSystemNew(T) ==
    /\ alive
    /\ cs_pc = "idle"
    /\ Cardinality(heap) < MaxInstances
    /\ cs_pc' = "ctor"
    /\ cs_mode' = "create_system"
    /\ cs_T' = T
    /\ cs_ptr' = fresh_pointer
    /\ heap' = heap \cup {fresh_pointer}
    /\ cs_had' = map_find(systems, T)
    /\ last_op' = NoOp
    /\ UNCHANGED <<system_type_map, systems, alive>>
    /\ UNCHANGED <<entityVars, partitionVars, particleVars, systemVars, pathVars>>

\* a system constructed by the caller, outside create_system
\* (teleporter.reset(new vr_teleport_system(orchestrator.get(), ...)))
DirectNew(T) ==
    /\ alive
    /\ cs_pc = "idle"
    /\ Cardinality(heap) < MaxInstances
    /\ cs_pc' = "ctor"
    /\ cs_mode' = "new"
    /\ cs_T' = T
    /\ cs_ptr' = fresh_pointer
    /\ heap' = heap \cup {fresh_pointer}
    /\ cs_had' = map_find(systems, T)
    /\ last_op' = NoOp
    /\ UNCHANGED <<system_type_map, systems, lifeVars>>
    /\ UNCHANGED <<entityVars, partitionVars, particleVars, systemVars, pathVars>>

\* inside the constructor: base_system::register_system_for_type(this, type)
CtorRegister(C) ==
    /\ cs_pc = "ctor"
    /\ system_type_map' = register_system_for_type(system_type_map, cs_T, C)
    /\ UNCHANGED <<systems, heap, cs_pc, cs_mode, cs_T, cs_ptr, cs_had, last_op, lifeVars>>
    /\ UNCHANGED <<entityVars, partitionVars, particleVars, systemVars, pathVars>>

\* create_system: add_system(get_typeid<T>(), ptr)
CreateSystemAdd ==
    /\ cs_pc = "ctor"
    /\ cs_mode = "create_system"
    /\ systems' = add_system(systems, cs_T, cs_ptr)
    /\ cs_pc' = "added"
    /\ UNCHANGED <<system_type_map, heap, cs_mode, cs_T, cs_ptr, cs_had, last_op, lifeVars>>
    /\ UNCHANGED <<entityVars, partitionVars, particleVars, systemVars, pathVars>>

\* create_system: return ptr
CreateSystemReturn ==
    /\ cs_pc = "added"
    /\ cs_pc' = "idle"
    /\ last_op' = [name |-> "create_system", T |-> cs_T, s |-> cs_ptr, C |-> NoType,
                   had |-> cs_had]
    /\ cs_mode' = "none"
    /\ cs_T' = NoType
    /\ cs_ptr' = nullptr
    /\ cs_had' = {}
    /\ UNCHANGED <<system_type_map, systems, heap, lifeVars>>
    /\ UNCHANGED <<entityVars, partitionVars, particleVars, systemVars, pathVars>>

\* the caller's own new-expression is complete
DirectNewReturn ==
    /\ cs_pc = "ctor"
    /\ cs_mode = "new"
    /\ cs_pc' = "idle"
    /\ last_op' = [name |-> "new", T |-> cs_T, s |-> cs_ptr, C |-> NoType, had |-> cs_had]
    /\ cs_mode' = "none"
    /\ cs_T' = NoType
    /\ cs_ptr' = nullptr
    /\ cs_had' = {}
    /\ UNCHANGED <<system_type_map, systems, heap, lifeVars>>
    /\ UNCHANGED <<entityVars, partitionVars, particleVars, systemVars, pathVars>>

\* a direct call of add_system(system_type, system)
AddSystem(T, s) ==
    /\ alive
    /\ cs_pc = "idle"
    /\ systems' = add_system(systems, T, s)
    /\ last_op' = [name |-> "add_system", T |-> T, s |-> s, C |-> NoType,
                   had |-> map_find(systems, T)]
    /\ UNCHANGED <<system_type_map, heap, cs_pc, cs_mode, cs_T, cs_ptr, cs_had, lifeVars>>
    /\ UNCHANGED <<entityVars, partitionVars, particleVars, systemVars, pathVars>>

\* a direct call of entity_orchestrator::register_system_for_type(system_type, def_type)
RegisterSystemForType(S, C) ==
    /\ alive
    /\ cs_pc = "idle"
    /\ system_type_map' = register_system_for_type(system_type_map, S, C)
    /\ last_op' = [name |-> "register_system_for_type", T |-> S, s |-> nullptr, C |-> C,
                   had |-> map_find(system_type_map, C)]
    /\ UNCHANGED <<systems, heap, cs_pc, cs_mode, cs_T, cs_ptr, cs_had, lifeVars>>
    /\ UNCHANGED <<entityVars, partitionVars, particleVars, systemVars, pathVars>>

\* what the destruction of the member `systems` leaves allocated: the map holds
\* base_system * values, and destroying a raw pointer deletes nothing
destroy_systems(allocated, reg) == allocated

\* the orchestrator is torn down: the class declares no destructor, the implicit
\* one destroys the members systems and system_type_map
Teardown ==
    /\ alive
    /\ cs_pc = "idle"
    /\ alive' = FALSE
    /\ heap' = destroy_systems(heap, systems)
    /\ systems' = {}
    /\ system_type_map' = {}
    /\ last_op' = [name |-> "teardown", T |-> NoType, s |-> nullptr, C |-> NoType,
                   had |-> systems]
    /\ UNCHANGED <<cs_pc, cs_mode, cs_T, cs_ptr, cs_had>>
    /\ UNCHANGED <<entityVars, partitionVars, particleVars, systemVars, pathVars>>

RegistryNext ==
    \/ \E T \in SystemTypes : CreateSystemNew(T)
    \/ \E T \in SystemTypes : DirectNew(T)
    \/ \E C \in ComponentTypes : CtorRegister(C)
    \/ CreateSystemAdd
    \/ CreateSystemReturn
    \/ DirectNewReturn
    \/ \E T \in SystemTypes, s \in heap \cup {nullptr} : AddSystem(T, s)
    \/ \E S \in SystemTypes, C \in ComponentTypes : RegisterSystemForType(S, C)
    \/ Teardown

(***************************************************************************)
(* particle_parallel_for                                                   *)
(***************************************************************************)
Abs(a) == IF a < 0 THEN 0 - a ELSE a
Min(a, b) == IF a < b THEN a ELSE b
Max(a, b) == IF a > b THEN a ELSE b

\* int / int and int % int with a non-zero divisor: truncation toward zero
int_div(a, b) ==
    IF (a >= 0) = (b > 0) THEN Abs(a) \div Abs(b) ELSE 0 - (Abs(a) \div Abs(b))
int_mod(a, b) == a - b * int_div(a, b)

\* const int hint = (target_concurrency == 0) ? hardware_concurrency() : target_concurrency
compute_hint(target_concurrency, hardware_concurrency) ==
    IF target_concurrency = 0 THEN hardware_concurrency ELSE target_concurrency

\* a worker count that is not capped by n
compute_n_threads_nocap(n, h) == IF h = 0 THEN DefaultConcurrency ELSE h

\* const int n_threads = std::min(n, (hint == 0) ? 4 : hint)
compute_n_threads(n, h) == Min(n, IF h = 0 THEN DefaultConcurrency ELSE h)

\* const int n_max_tasks_per_thread = (n / n_threads) + (n % n_threads == 0 ? 0 : 1)
compute_n_max_tasks_per_thread(n, k) ==
    int_div(n, k) + (IF int_mod(n, k) = 0 THEN 0 ELSE 1)

\* const int n_lacking_tasks = n_max_tasks_per_thread * n_threads - n
compute_n_lacking_tasks(n, k, m) == m * k - n

\* a start index that ignores the shortfall of the earlier workers
inclusive_start_index_noshift(thread_index, k, m, l) ==
    thread_index * m

\* inner_loop: const int inclusive_start_index
inclusive_start_index(thread_index, k, m, l) ==
    LET n_lacking_tasks_so_far == Max(thread_index - k + l, 0)
    IN  thread_index * m - n_lacking_tasks_so_far

\* an end index that takes the element away one worker too late
exclusive_end_index_strict(thread_index, k, m, l) ==
    inclusive_start_index(thread_index, k, m, l) + m
        - (IF thread_index - k + l > 0 THEN 1 ELSE 0)

\* inner_loop: const int exclusive_end_index
exclusive_end_index(thread_index, k, m, l) ==
    inclusive_start_index(thread_index, k, m, l) + m
        - (IF thread_index - k + l >= 0 THEN 1 ELSE 0)

\* a join that returns without waiting for the thread
thread_join_nowait(t) == TRUE

\* std::thread::join: returns once the thread has finished
thread_join(t) == threads[t].pc = "done"

\* function(k), as the partitioner sees it: one more invocation for index k
invoke(c, k) ==
    IF k \in DOMAIN c THEN [c EXCEPT ![k] = @ + 1] ELSE c @@ (k :> 1)

PartitionInit ==
    /\ pf_pc = "idle"
    /\ pf_n = 0
    /\ pf_target = 0
    /\ pf_hw = 0
    /\ hint = 0
    /\ n_threads = 0
    /\ n_max_tasks_per_thread = 0
    /\ n_lacking_tasks = 0
    /\ pf_j = 0
    /\ threads = <<>>
    /\ calls = <<>>

\* particle_parallel_for(n, function, target_concurrency) is entered and computes its
\* constants.  With n = 0, n_threads is 0 and n / n_threads, n % n_threads divide by
\* zero: undefined behaviour, which either traps or leaves some value in the quotient.
ParallelForCall(n, target_concurrency, hardware_concurrency) ==
    /\ pf_pc = "idle"
    /\ pf_n' = n
    /\ pf_target' = target_concurrency
    /\ pf_hw' = hardware_concurrency
    /\ hint' = compute_hint(target_concurrency, hardware_concurrency)
    /\ n_threads' = compute_n_threads(n, hint')
    /\ IF n_threads' = 0
       THEN \/ /\ pf_pc' = "fault"
               /\ UNCHANGED <<n_max_tasks_per_thread, n_lacking_tasks>>
            \/ /\ pf_pc' = "start"
               /\ n_max_tasks_per_thread' \in 0..1
               /\ n_lacking_tasks' =
                      compute_n_lacking_tasks(n, n_threads', n_max_tasks_per_thread')
       ELSE /\ pf_pc' = "start"
            /\ n_max_tasks_per_thread' = compute_n_max_tasks_per_thread(n, n_threads')
            /\ n_lacking_tasks' =
                   compute_n_lacking_tasks(n, n_threads', n_max_tasks_per_thread')
    /\ UNCHANGED <<pf_j, threads, calls>>
    /\ UNCHANGED <<entityVars, registryVars, particleVars, systemVars, pathVars>>

\* for (int j = 0; j < n_threads; ++j) { threads.push_back(std::thread(inner_loop, j)); }
ParallelForStart ==
    /\ pf_pc = "start"
    /\ IF pf_j < n_threads
       THEN /\ threads' = Append(threads, [pc |-> "created", thread_index |-> pf_j,
                                           k |-> 0, exclusive_end_index |-> 0])
            /\ pf_j' = pf_j + 1
            /\ UNCHANGED pf_pc
       ELSE /\ pf_pc' = "join"
            /\ pf_j' = 0
            /\ UNCHANGED threads
    /\ UNCHANGED <<pf_n, pf_target, pf_hw, hint, n_threads, n_max_tasks_per_thread,
                   n_lacking_tasks, calls>>
    /\ UNCHANGED <<entityVars, registryVars, particleVars, systemVars, pathVars>>

\* for (auto & t : threads) { t.join(); } and the return
ParallelForJoin ==
    /\ pf_pc = "join"
    /\ IF pf_j < Len(threads)
       THEN /\ thread_join(pf_j + 1)
            /\ pf_j' = pf_j + 1
            /\ UNCHANGED pf_pc
       ELSE /\ pf_pc' = "returned"
            /\ UNCHANGED pf_j
    /\ UNCHANGED <<pf_n, pf_target, pf_hw, hint, n_threads, n_max_tasks_per_thread,
                   n_lacking_tasks,
                   threads, calls>>
    /\ UNCHANGED <<entityVars, registryVars, particleVars, systemVars, pathVars>>

\* inner_loop(thread_index) begins in its thread: the range is computed
WorkerBegin(t) ==
    /\ t \in DOMAIN threads
    /\ threads[t].pc = "created"
    /\ LET j == threads[t].thread_index
       IN  threads' = [threads EXCEPT ![t] =
               [pc |-> "loop", thread_index |-> j,
                k |-> inclusive_start_index(j, n_threads, n_max_tasks_per_thread,
                                            n_lacking_tasks),
                exclusive_end_index |->
                     exclusive_end_index(j, n_threads, n_max_tasks_per_thread,
                                         n_lacking_tasks)]]
    /\ UNCHANGED <<pf_pc, pf_n, pf_target, pf_hw, hint, n_threads, n_max_tasks_per_thread,
                   n_lacking_tasks,
                   pf_j, calls>>
    /\ UNCHANGED <<entityVars, registryVars, particleVars, systemVars, pathVars>>

\* for (int k = inclusive_start_index; k < exclusive_end_index; ++k) { function(k); }
WorkerCall(t) ==
    /\ t \in DOMAIN threads
    /\ threads[t].pc = "loop"
    /\ threads[t].k < threads[t].exclusive_end_index
    /\ calls' = invoke(calls, threads[t].k)
    /\ threads' = [threads EXCEPT ![t].k = @ + 1]
    /\ UNCHANGED <<pf_pc, pf_n, pf_target, pf_hw, hint, n_threads, n_max_tasks_per_thread,
                   n_lacking_tasks,
                   pf_j>>
    /\ UNCHANGED <<entityVars, registryVars, particleVars, systemVars, pathVars>>

\* the loop condition fails: inner_loop returns and the thread finishes
WorkerExit(t) ==
    /\ t \in DOMAIN threads
    /\ threads[t].pc = "loop"
    /\ threads[t].k >= threads[t].exclusive_end_index
    /\ threads' = [threads EXCEPT ![t].pc = "done"]
    /\ UNCHANGED <<pf_pc, pf_n, pf_target, pf_hw, hint, n_threads, n_max_tasks_per_thread,
                   n_lacking_tasks,
                   pf_j, calls>>
    /\ UNCHANGED <<entityVars, registryVars, particleVars, systemVars, pathVars>>

Workers == 1..Max(DefaultConcurrency, Max(MaxHint, MaxHardware))

PartitionNext ==
    \/ \E n \in 0..MaxN, target_concurrency \in 0..MaxHint,
          hardware_concurrency \in 0..MaxHardware :
            ParallelForCall(n, target_concurrency, hardware_concurrency)
    \/ ParallelForStart
    \/ ParallelForJoin
    \/ \E t \in Workers : WorkerBegin(t)
    \/ \E t \in Workers : WorkerCall(t)
    \/ \E t \in Workers : WorkerExit(t)

(***************************************************************************)
(* gl_particle_system                                                      *)
(* A particle is [kind, steps]: kind names the position, velocity, size    *)
(* and color it was added with, steps counts the trail modifications       *)
(* (position -= velocity * 0.001f; size *= 0.97f) applied to it since.     *)
(* An instance is the [kind, steps] of the particle it was written from,   *)
(* and `written`, the update that wrote it (0: value-initialised).         *)
(***************************************************************************)
ParticleKinds == 1..NumParticleKinds

\* instances.resize(n) on an empty vector: n value-initialised elements
resize_instances(n) == [k \in 1..n |-> [kind |-> 0, steps |-> 0, written |-> 0]]

\* if (!instances.size()) { instances.resize(particles.size()); ... }
ensure_instances(inst, n) == IF Len(inst) = 0 THEN resize_instances(n) ELSE inst

\* particles[idx].position -= particles[idx].velocity * 0.001f; particles[idx].size *= 0.97f
trail_modify(ps, idx) == [ps EXCEPT ![idx + 1].steps = @ + 1]

\* instances[i].position_size = float4(particles[i].position, particles[i].size);
\* instances[i].color = float4(particles[i].color)
write_instance(inst, ps, i, update) ==
    [inst EXCEPT ![i + 1] = [kind |-> ps[i + 1].kind, steps |-> ps[i + 1].steps,
                             written |-> update]]

\* particles[index] or instances[index], read or written by the loop body that
\* runs for particle index i
access(i, array, index, write) ==
    [by |-> i, array |-> array, index |-> index, write |-> write]

\* the bytes of an instance array
bytes(inst) == [k \in DOMAIN inst |-> <<inst[k].kind, inst[k].steps>>]

NoUpload == [update |-> 0, data |-> <<>>]
NoInput == [particles |-> <<>>, trail |-> 0, dt |-> 0]

ParticleInit ==
    /\ particles = <<>>
    /\ instances = <<>>
    /\ instanceBuffers = 0
    /\ trail = 0
    /\ up_pc = "idle"
    /\ up_i = 0
    /\ up_trail_idx = 0
    /\ up_count = 0
    /\ up_input = NoInput
    /\ out_of_bounds = FALSE
    /\ uploaded = NoUpload
    /\ runs = {}
    /\ touched = {}

\* gl_particle_system::add(position, velocity, size, lifeMs) / add(position, color, size)
Add(kind) ==
    /\ up_pc \in {"idle", "early"}
    /\ Len(particles) < MaxParticles
    /\ particles' = Append(particles, [kind |-> kind, steps |-> 0])
    /\ UNCHANGED <<instances, instanceBuffers, trail, up_pc, up_i, up_trail_idx, up_count,
                   up_input, out_of_bounds, uploaded, runs, touched>>
    /\ UNCHANGED <<entityVars, registryVars, partitionVars, systemVars, pathVars>>

\* gl_particle_system::clear
Clear ==
    /\ up_pc \in {"idle", "early"}
    /\ particles' = <<>>
    /\ UNCHANGED <<instances, instanceBuffers, trail, up_pc, up_i, up_trail_idx, up_count,
                   up_input, out_of_bounds, uploaded, runs, touched>>
    /\ UNCHANGED <<entityVars, registryVars, partitionVars, systemVars, pathVars>>

\* gl_particle_system::set_trail_count
SetTrailCount(trail_count) ==
    /\ up_pc \in {"idle", "early"}
    /\ trail' = trail_count
    /\ UNCHANGED <<particles, instances, instanceBuffers, up_pc, up_i, up_trail_idx, up_count,
                   up_input, out_of_bounds, uploaded, runs, touched>>
    /\ UNCHANGED <<entityVars, registryVars, partitionVars, systemVars, pathVars>>

\* gl_particle_system::update(dt), up to the loop:
\*   if (particles.size() == 0) return;
\*   if (!instances.size()) { instances.resize(...); instanceBuffers.reset(...); }
UpdateBegin(dt) ==
    /\ up_pc \in {"idle", "early"}
    /\ IF Len(particles) = 0
       THEN /\ up_pc' = "early"
            /\ UNCHANGED <<instances, instanceBuffers, up_i, up_trail_idx, up_count,
                           up_input, out_of_bounds, touched>>
       ELSE /\ up_count < MaxUpdates
            /\ instances' = ensure_instances(instances, Len(particles))
            /\ instanceBuffers' = IF Len(instances) = 0 THEN Len(instances')
                                  ELSE instanceBuffers
            /\ up_count' = up_count + 1
            /\ up_input' = [particles |-> particles, trail |-> trail, dt |-> dt]
            /\ up_i' = 0
            /\ up_trail_idx' = 0
            /\ out_of_bounds' = FALSE
            /\ touched' = {}
            /\ up_pc' = "loop"
    /\ UNCHANGED <<particles, trail, uploaded, runs>>
    /\ UNCHANGED <<entityVars, registryVars, partitionVars, systemVars, pathVars>>

\* one pass through the body of the trail loop, with the loop bookkeeping that follows it:
\*   for (int i = 0; i < particles.size(); ++i)
\*     for (int trail_idx = 0; trail_idx < (trail + 1); ++trail_idx) {
\*       if (trail_idx >= 1) { particles[trail_idx]... }
\*       instances[i] = ... particles[i] ...
\*     }
\* An access outside a vector is undefined behaviour: the process faults, or it goes on
\* with the vector as it was and memory outside it changed.
UpdateStep ==
    /\ up_pc = "loop"
    /\ LET modifies == up_trail_idx >= 1
           particle_oob == modifies /\ up_trail_idx >= Len(particles)
           instance_oob == up_i >= Len(instances)
           ps == IF modifies /\ ~particle_oob THEN trail_modify(particles, up_trail_idx)
                 ELSE particles
           last_trail == ~(up_trail_idx + 1 < trail + 1)
           next_i == IF last_trail THEN up_i + 1 ELSE up_i
           trail_access == IF modifies
                           THEN {access(up_i, "particles", up_trail_idx, TRUE)}
                           ELSE {}
           instance_access == {access(up_i, "particles", up_i, FALSE),
                               access(up_i, "instances", up_i, TRUE)}
       IN  \/ /\ particle_oob \/ instance_oob
              /\ up_pc' = "fault"
              /\ out_of_bounds' = TRUE
              /\ touched' = touched \cup trail_access
                               \cup (IF particle_oob THEN {} ELSE instance_access)
              /\ UNCHANGED <<particles, instances, up_i, up_trail_idx>>
           \/ /\ particles' = ps
              /\ touched' = touched \cup trail_access \cup instance_access
              /\ instances' = IF instance_oob THEN instances
                              ELSE write_instance(instances, ps, up_i, up_count)
              /\ out_of_bounds' = (out_of_bounds \/ particle_oob \/ instance_oob)
              /\ up_trail_idx' = IF last_trail THEN 0 ELSE up_trail_idx + 1
              /\ up_i' = next_i
              /\ up_pc' = IF next_i < Len(particles) THEN "loop" ELSE "upload"
    /\ UNCHANGED <<instanceBuffers, trail, up_count, up_input, uploaded, runs>>
    /\ UNCHANGED <<entityVars, registryVars, partitionVars, systemVars, pathVars>>

\* glNamedBufferSubDataEXT(instanceBuffers->current(), 0,
\*                         instances.size() * sizeof(instance_data), instances.data())
UpdateUpload ==
    /\ up_pc = "upload"
    /\ uploaded' = [update |-> up_count, data |-> instances]
    /\ runs' = runs \cup {[input |-> up_input, output |-> bytes(instances)]}
    /\ up_pc' = "idle"
    /\ touched' = {}
    /\ UNCHANGED <<particles, instances, instanceBuffers, trail, up_i, up_trail_idx,
                   up_count, up_input, out_of_bounds>>
    /\ UNCHANGED <<entityVars, registryVars, partitionVars, systemVars, pathVars>>

ParticleNext ==
    \/ \E kind \in ParticleKinds : Add(kind)
    \/ Clear
    \/ \E trail_count \in 0..MaxTrail : SetTrailCount(trail_count)
    \/ \E dt \in 1..NumDt : UpdateBegin(dt)
    \/ UpdateStep
    \/ UpdateUpload

(***************************************************************************)
(* A system implementing base_system: the create / destroy contract        *)
(***************************************************************************)

\* the entities handed to the system, the component types it owns, one type it
\* does not own, and the opaque data a caller passes (nullptr is malformed)
Entities == 1..MaxEntities
OwnedTypes == 1..NumOwnedTypes
UnknownType == NumOwnedTypes + 1
OpaqueData == 0..MaxData

owns(type) == type \in OwnedTypes

well_formed(data) == data # nullptr

components_of(comps, e) == {c \in comps : c[1] = e}

has_component(comps, e, type) == \E c \in comps : c[1] = e /\ c[2] = type

\* create that attaches the component before it has validated the data
create_partial(comps, e, type, data) ==
    IF ~owns(type)
    THEN [result |-> FALSE, why |-> "unknown_type", components |-> comps]
    ELSE IF has_component(comps, e, type)
    THEN [result |-> FALSE, why |-> "duplicate", components |-> comps]
    ELSE IF ~well_formed(data)
    THEN [result |-> FALSE, why |-> "malformed",
          components |-> comps \cup {<<e, type, data>>}]
    ELSE [result |-> TRUE, why |-> "attached",
          components |-> comps \cup {<<e, type, data>>}]

\* bool create(entity e, poly_typeid hash, void * data): validate the type, the
\* data and the duplicate policy (one component of a type per entity), then attach
create(comps, e, type, data) ==
    IF ~owns(type)
    THEN [result |-> FALSE, why |-> "unknown_type", components |-> comps]
    ELSE IF ~well_formed(data)
    THEN [result |-> FALSE, why |-> "malformed", components |-> comps]
    ELSE IF has_component(comps, e, type)
    THEN [result |-> FALSE, why |-> "duplicate", components |-> comps]
    ELSE [result |-> TRUE, why |-> "attached",
          components |-> comps \cup {<<e, type, data>>}]

\* destroy that removes one component of the entity per call
destroy_one(comps, e) ==
    IF components_of(comps, e) = {}
    THEN [raised |-> FALSE, components |-> comps]
    ELSE [raised |-> FALSE,
          components |-> comps \ {CHOOSE c \in components_of(comps, e) : TRUE}]

\* void destroy(entity e): remove every component held for e
destroy(comps, e) ==
    [raised |-> FALSE, components |-> comps \ components_of(comps, e)]

NoCall ==
    [name |-> "none", e |-> kInvalidEntity, result |-> FALSE, why |-> "none",
     removed |-> 0, raised |-> FALSE]

SystemInit ==
    /\ components = {}
    /\ sys_last = NoCall

SystemCreate(e, type, data) ==
    LET r == create(components, e, type, data) IN
    /\ components' = r.components
    /\ sys_last' = [name |-> "create", e |-> e, result |-> r.result, why |-> r.why,
                    removed |-> 0, raised |-> FALSE]
    /\ UNCHANGED <<entityVars, registryVars, partitionVars, particleVars, pathVars>>

SystemDestroy(e) ==
    LET r == destroy(components, e) IN
    /\ components' = r.components
    /\ sys_last' = [name |-> "destroy", e |-> e, result |-> FALSE, why |-> "none",
                    removed |-> Cardinality(components_of(components, e)),
                    raised |-> r.raised]
    /\ UNCHANGED <<entityVars, registryVars, partitionVars, particleVars, pathVars>>

SystemNext ==
    \/ \E e \in Entities, type \in OwnedTypes \cup {UnknownType}, data \in OpaqueData :
           SystemCreate(e, type, data)
    \/ \E e \in Entities : SystemDestroy(e)

(***************************************************************************)
(* String utilities: replace_in_string and normalize_path                  *)
(***************************************************************************)

\* the characters a path is made of: an ordinary character and the two separators
Slash == "/"
Backslash == "\\"
Chars == {"a", Slash, Backslash}

\* the strings of at most MaxPathLen characters
Strings == UNION {[1..len -> Chars] : len \in 0..MaxPathLen}

\* std::string::npos
npos == 0 - 1

\* get_platform_separator(): '\\' on POLYMER_PLATFORM_WINDOWS, '/' otherwise
PlatformSeparators == {Slash, Backslash}

\* mutable_input.find(look_for, start): the first position at or after start
\* (counted from 0) where look_for occurs, or npos
string_find(input, look_for, start) ==
    LET hits == {i \in start..(Len(input) - Len(look_for)) :
                    SubSeq(input, i + 1, i + Len(look_for)) = look_for}
    IN  IF hits = {} THEN npos ELSE CHOOSE i \in hits : \A h \in hits : i <= h

\* mutable_input.replace(find, look_for.length(), replace_with)
string_replace(input, find, length, replace_with) ==
    SubSeq(input, 1, find) \o replace_with \o SubSeq(input, find + length + 1, Len(input))

\* the do-while loop of replace_in_string, entered with the search position start
RECURSIVE replace_loop(_, _, _, _)
replace_loop(input, look_for, replace_with, start) ==
    LET find == string_find(input, look_for, start)
    IN  IF find # npos
        THEN replace_loop(string_replace(input, find, Len(look_for), replace_with),
                          look_for, replace_with, find + Len(replace_with))
        ELSE input

\* replace_in_string(mutable_input, look_for, replace_with): the string it leaves
replace_in_string(input, look_for, replace_with) ==
    IF Len(look_for) > 0 THEN replace_loop(input, look_for, replace_with, 0) ELSE input

\* if (separator == '/') replace_in_string(path, "\\", "/");
\* else if (separator == '\\') replace_in_string(path, "/", "\\")
convert_separators(p, sep) ==
    IF sep = Slash THEN replace_in_string(p, <<Backslash>>, <<Slash>>)
    ELSE IF sep = Backslash THEN replace_in_string(p, <<Slash>>, <<Backslash>>)
    ELSE p

\* if (path.size() > 0 && path[path.size()-1] == separator) path.erase(last)
erase_last_separator(p, sep) ==
    IF Len(p) > 0 /\ p[Len(p)] = sep THEN SubSeq(p, 1, Len(p) - 1) ELSE p

PathInit ==
    /\ np_pc = "idle"
    /\ path = <<>>
    /\ np_input = <<>>
    /\ separator = Slash

\* normalize_path(path) is called, in a build whose platform separator is sep
NormalizeCall(p, sep) ==
    /\ np_pc \in {"idle", "done"}
    /\ path' = p
    /\ np_input' = p
    /\ separator' = sep
    /\ np_pc' = "collapse"
    /\ UNCHANGED <<entityVars, registryVars, partitionVars, particleVars, systemVars>>

\* replace_in_string(path, "//", "/")
NormalizeCollapse ==
    /\ np_pc = "collapse"
    /\ path' = replace_in_string(path, <<Slash, Slash>>, <<Slash>>)
    /\ np_pc' = "convert"
    /\ UNCHANGED <<np_input, separator>>
    /\ UNCHANGED <<entityVars, registryVars, partitionVars, particleVars, systemVars>>

\* the replacement of the other platform's separator
NormalizeConvert ==
    /\ np_pc = "convert"
    /\ path' = convert_separators(path, separator)
    /\ np_pc' = "trim"
    /\ UNCHANGED <<np_input, separator>>
    /\ UNCHANGED <<entityVars, registryVars, partitionVars, particleVars, systemVars>>

\* the removal of a last separator, and the return
NormalizeTrim ==
    /\ np_pc = "trim"
    /\ path' = erase_last_separator(path, separator)
    /\ np_pc' = "done"
    /\ UNCHANGED <<np_input, separator>>
    /\ UNCHANGED <<entityVars, registryVars, partitionVars, particleVars, systemVars>>

PathNext ==
    \/ \E p \in Strings, sep \in PlatformSeparators : NormalizeCall(p, sep)
    \/ NormalizeCollapse
    \/ NormalizeConvert
    \/ NormalizeTrim

EntityNext ==
    \/ \E t \in Threads : CreateEntityCall(t)
    \/ \E t \in Threads : CreateEntityLock(t)
    \/ \E t \in Threads : CreateEntityLoad(t)
    \/ \E t \in Threads : CreateEntityStore(t)
    \/ \E t \in Threads : CreateEntityReturn(t)
(***************************************************************************)
(* An application that sets up its scene: one thread makes the orchestrator *)
(* calls one after the other, in any order                                  *)
(***************************************************************************)

\* the thread that constructs the application
AppThread == CHOOSE t \in Threads : TRUE

\* no create_entity call is running
NoEntityCall == \A t \in Threads : ce_pc[t] = "idle"

\* no registry call is running
NoRegistryCall == cs_pc = "idle"

SceneNext ==
    \/ /\ NoRegistryCall
       /\ Len(returned[AppThread]) < MaxSceneEntities
       /\ CreateEntityCall(AppThread)
    \/ CreateEntityLock(AppThread)
    \/ CreateEntityLoad(AppThread)
    \/ CreateEntityStore(AppThread)
    \/ CreateEntityReturn(AppThread)
    \/ \E T \in SystemTypes :
          /\ NoEntityCall
          /\ Cardinality(heap) < MaxSceneSystems
          /\ CreateSystemNew(T)
    \/ \E T \in SystemTypes :
          /\ NoEntityCall
          /\ Cardinality(heap) < MaxSceneSystems
          /\ DirectNew(T)
    \/ \E C \in ComponentTypes : CtorRegister(C)
    \/ CreateSystemAdd
    \/ CreateSystemReturn
    \/ DirectNewReturn
    \/ \E T \in SystemTypes, s \in heap \cup {nullptr} : NoEntityCall /\ AddSystem(T, s)
    \/ \E S \in SystemTypes, C \in ComponentTypes :
          NoEntityCall /\ RegisterSystemForType(S, C)


Init ==
    /\ EntityInit
    /\ RegistryInit
    /\ PartitionInit
    /\ ParticleInit
    /\ SystemInit
    /\ PathInit

SpecEntity == Init /\ [][EntityNext]_vars

\* fair scheduling: a thread inside create_entity keeps running, and a thread that
\* waits for createMutex obtains it if the mutex is free again and again
EntityFairness ==
    \A t \in Threads :
        /\ SF_vars(CreateEntityLock(t))
        /\ WF_vars(CreateEntityLoad(t) \/ CreateEntityStore(t) \/ CreateEntityReturn(t))

SpecEntityFair == SpecEntity /\ EntityFairness

SpecRegistry == Init /\ [][RegistryNext]_vars

SpecPartition == Init /\ [][PartitionNext]_vars

\* fair scheduling: the calling thread and every started worker thread keep running
PartitionFairness ==
    /\ WF_vars(ParallelForStart)
    /\ WF_vars(ParallelForJoin)
    /\ \A t \in Workers : WF_vars(WorkerBegin(t) \/ WorkerCall(t) \/ WorkerExit(t))

SpecPartitionFair == SpecPartition /\ PartitionFairness

SpecParticles == Init /\ [][ParticleNext]_vars

SpecSystem == Init /\ [][SystemNext]_vars

SpecPath == Init /\ [][PathNext]_vars

SpecScene == Init /\ [][SceneNext]_vars

(***************************************************************************)
(* Properties of create_entity                                             *)
(***************************************************************************)

\* the calls that have returned, as <<thread, position in the thread's call order>>
Calls == {c \in Threads \X (1..MaxCallsPerThread + 1) : c[2] <= Len(returned[c[1]])}

\* C1: no two create_entity calls, by the same or by different threads, return
\* the same value, under every interleaving of the threads.
UniqueEntities ==
    \A c, d \in Calls : c # d => returned[c[1]][c[2]] # returned[d[1]][d[2]]

\* two threads have completed calls, interleaved: t's second call follows u's first
UniqueEntitiesWitness ==
    \E t, u \in Threads :
        /\ t # u
        /\ Len(returned[t]) >= 2
        /\ Len(returned[u]) >= 1
        /\ returned[t][1] < returned[u][1]
        /\ returned[u][1] < returned[t][2]

\* C3: create_entity never returns 0 (kInvalidEntity), whatever the number of
\* earlier calls.
NeverInvalidEntity ==
    \A c \in Calls : returned[c[1]][c[2]] # kInvalidEntity

\* every thread has made all its calls, the first and the last included
NeverInvalidEntityWitness ==
    \A t \in Threads : Len(returned[t]) = MaxCallsPerThread

\* C4: within one thread's call order every create_entity call returns a value
\* strictly greater than that thread's previous call, whatever other threads do
\* in between.
PerThreadIncreasing ==
    \A t \in Threads : \A i \in 1..Len(returned[t]) :
        i > 1 => returned[t][i - 1] < returned[t][i]

\* a thread's two consecutive calls with another thread's call in between
PerThreadIncreasingWitness ==
    \E t \in Threads : \E i \in 2..Len(returned[t]) :
        returned[t][i] > returned[t][i - 1] + 1

\* C20: under fair scheduling of the threads and of the lock every create_entity
\* call eventually returns (every thread is outside create_entity again and
\* again); createMutex is held only by a thread inside its critical section, so it
\* is always released and the callers are never all blocked.
EveryCallReturns ==
    /\ [](createMutex # NoThread => ce_pc[createMutex] \in {"locked", "loaded", "stored"})
    /\ [](\E t \in Threads : ce_pc[t] # "idle" =>
              \E u \in Threads : ce_pc[u] \in {"locked", "loaded", "stored"}
                                 \/ (ce_pc[u] = "waiting" /\ createMutex = NoThread))
    /\ \A t \in Threads : []<>(ce_pc[t] = "idle")

\* a thread that has returned from a call before waits for createMutex while
\* another thread is about to leave its critical section
EveryCallReturnsWitness ==
    \E t, u \in Threads :
        /\ t # u
        /\ ce_pc[t] = "waiting"
        /\ Len(returned[t]) >= 1
        /\ createMutex = u
        /\ ce_pc[u] = "stored"

\* the threads between the read and the write of entity_counter
BetweenReadAndWrite == {t \in Threads : ce_pc[t] = "loaded"}

ReturnedValues == {returned[c[1]][c[2]] : c \in Calls}

\* the values of the calls that have left ++entity_counter but not yet returned
StoredValues == {ce_e[t] : t \in {u \in Threads : ce_pc[u] = "stored"}}

\* C23: entity ids are dense from 1: the k-th call to pass through the critical
\* section obtains exactly k, so after N completed calls (none between its
\* increment and its return) the returned values are exactly {1, ..., N} and
\* entity_counter equals N.
DenseEntities ==
    /\ ReturnedValues \cup StoredValues = 1..entity_counter
    /\ Cardinality(ReturnedValues) = Cardinality(Calls)
    /\ StoredValues = {} =>
            /\ ReturnedValues = 1..Cardinality(Calls)
            /\ entity_counter = Cardinality(Calls)

\* all threads are outside create_entity after several calls of each of them
DenseEntitiesWitness ==
    /\ \A t \in Threads : ce_pc[t] = "idle" /\ Len(returned[t]) >= 1
    /\ Cardinality(Calls) > NumThreads
    /\ entity_counter = Cardinality(Calls)

(***************************************************************************)
(* Properties of the system registry and the type router                   *)
(***************************************************************************)

\* C5: add_system(T, s) inserts s only when no instance is registered for T;
\* when one is registered the call leaves the registry unchanged, so exactly one
\* instance stays registered for T and it is the first one.
AddSystemInsertsIfAbsent ==
    [][last_op'.name = "add_system" =>
        LET T == last_op'.T
            s == last_op'.s
        IN  /\ map_has(systems, T) =>
                    /\ systems' = systems
                    /\ Cardinality(map_find(systems', T)) = 1
            /\ systems' # systems =>
                    /\ ~map_has(systems, T)
                    /\ systems' = systems \cup {<<T, s>>}
            /\ (~map_has(systems, T) /\ s # nullptr) => map_find(systems', T) = {<<T, s>>}
    ]_vars

\* add_system(T, s) has just been called with another instance for a type that
\* was registered before, and the registry still holds the first instance
AddSystemInsertsIfAbsentWitness ==
    /\ last_op.name = "add_system"
    /\ last_op.s # nullptr
    /\ last_op.had # {}
    /\ <<last_op.T, last_op.s>> \notin last_op.had
    /\ map_find(systems, last_op.T) = last_op.had

\* C6: immediately after create_system<T>() returns handle p, the registry's
\* instance for T is p; this for every call, also when T was registered before.
CreateSystemRegistersHandle ==
    last_op.name = "create_system" =>
        map_find(systems, last_op.T) = {<<last_op.T, last_op.s>>}

\* C6, amended: immediately after create_system<T>() returns handle p to the
\* instance it constructed, the registry holds exactly one instance for T: p when
\* T was not registered when the call began, and otherwise the instance
\* registered before, p not being registered.
CreateSystemRegistersIfAbsent ==
    last_op.name = "create_system" =>
        LET T == last_op.T
            p == last_op.s
        IN  /\ p # nullptr
            /\ p \in heap
            /\ IF last_op.had # {}
               THEN /\ map_find(systems, T) = last_op.had
                    /\ \A e \in systems : e[2] # p
               ELSE map_find(systems, T) = {<<T, p>>}
            /\ Cardinality(map_find(systems, T)) = 1

\* a create_system<T>() call has returned for a type that was registered before
CreateSystemRegistersIfAbsentWitness ==
    /\ last_op.name = "create_system"
    /\ last_op.had # {}
    /\ \E T \in SystemTypes : ~map_has(systems, T)

\* C7: immediately after register_system_for_type(S, C) the routing table
\* resolves C to S, whatever C was routed to before, and to S only.
RouteLastWins ==
    last_op.name = "register_system_for_type" =>
        map_find(system_type_map, last_op.C) = {<<last_op.C, last_op.T>>}

\* register_system_for_type(S, C) has just been called for a component type
\* that was routed to another system type
RouteLastWinsWitness ==
    /\ last_op.name = "register_system_for_type"
    /\ last_op.had # {}
    /\ map_at(last_op.had, last_op.C) # last_op.T

\* C11: when the orchestrator is torn down, every system instance it created
\* or registered is released: after teardown no instance that was in the
\* registry when the teardown began remains allocated.
TeardownReleasesSystems ==
    ~alive => \A e \in last_op.had : e[2] \notin heap

\* C14: a duplicate registration is silently ignored: register_system_for_type
\* (S2, C) for a component type C that is already routed leaves the existing
\* route in place, as add_system for a present system type leaves the registry.
DuplicateRouteIgnored ==
    (last_op.name = "register_system_for_type" /\ last_op.had # {}) =>
        map_find(system_type_map, last_op.C) = last_op.had

\* C14, amended: only add_system ignores a duplicate. add_system for a system
\* type that is present leaves the registry's instance in place;
\* register_system_for_type(S2, C) for a component type C that is already routed
\* replaces the route, so that C resolves to S2 and no longer to another type.
DuplicateRouteReplaced ==
    /\ (last_op.name = "register_system_for_type" /\ last_op.had # {}) =>
            /\ map_find(system_type_map, last_op.C) = {<<last_op.C, last_op.T>>}
            /\ map_at(last_op.had, last_op.C) # last_op.T =>
                    map_find(system_type_map, last_op.C) # last_op.had
    /\ (last_op.name = "add_system" /\ last_op.had # {}) =>
            map_find(systems, last_op.T) = last_op.had

\* a component type routed to S1 has been registered again with another system
\* type S2, and its route is no longer the one to S1
DuplicateRouteReplacedWitness ==
    /\ last_op.name = "register_system_for_type"
    /\ last_op.had # {}
    /\ map_find(system_type_map, last_op.C) # last_op.had
    /\ map_at(system_type_map, last_op.C) = last_op.T

\* C24: in every reachable state every system type that the routing table names
\* as a target has an instance in the system registry, so that resolving
\* component type -> system type -> instance never ends at a missing instance.
RoutesResolve ==
    \A route \in system_type_map : map_has(systems, route[2])

\* the routes of component types other than C
OtherRoutes(m, C) == {route \in m : route[1] # C}

\* a step of a create_entity call
EntityStep == ce_pc' # ce_pc

\* a step of a running create_system call, its constructor included
CreateSystemStep ==
    /\ ~EntityStep
    /\ cs_mode = "create_system" \/ cs_mode' = "create_system"

\* a complete add_system or register_system_for_type call
DirectCallStep(name) ==
    /\ ~EntityStep
    /\ cs_pc = "idle"
    /\ cs_pc' = "idle"
    /\ last_op'.name = name

\* what holds of create_entity, add_system and register_system_for_type steps
FrameOfSimpleCalls ==
    /\ EntityStep => UNCHANGED <<systems, system_type_map>>
    /\ DirectCallStep("add_system") =>
            /\ UNCHANGED <<system_type_map, entity_counter>>
            /\ {e \in systems' : e[1] # last_op'.T} = {e \in systems : e[1] # last_op'.T}
    /\ DirectCallStep("register_system_for_type") =>
            /\ UNCHANGED <<systems, entity_counter>>
            /\ OtherRoutes(system_type_map', last_op'.C)
                    = OtherRoutes(system_type_map, last_op'.C)

CreateFalseLeavesState ==
    [][(sys_last'.name = "create" /\ ~sys_last'.result) => components' = components]_vars

\* a create with malformed data has returned false for an entity that holds a
\* component of another type
CreateFalseLeavesStateWitness ==
    /\ sys_last.name = "create"
    /\ ~sys_last.result
    /\ sys_last.why = "malformed"
    /\ components_of(components, sys_last.e) # {}

\* C13: destroy(e) removes all components the system holds for e and nothing
\* else; for an entity with no components (a second destroy in a row included)
\* it changes no state; it raises no error.
DestroyRemovesAllIdempotent ==
    [][sys_last'.name = "destroy" =>
          /\ components' = {c \in components : c[1] # sys_last'.e}
          /\ components_of(components, sys_last'.e) = {} => components' = components
          /\ ~sys_last'.raised]_vars

\* a destroy has removed several components of one entity and left those of
\* another entity in place
DestroyRemovesAllIdempotentWitness ==
    /\ sys_last.name = "destroy"
    /\ sys_last.removed > 1
    /\ components # {}

(***************************************************************************)
(* Properties of particle_parallel_for                                     *)
(***************************************************************************)

\* the half-open index range inner_loop(j) runs over
WorkerRange(j) ==
    {k \in (0 - MaxN - 1)..(2 * MaxN + 1) :
        /\ inclusive_start_index(j, n_threads, n_max_tasks_per_thread, n_lacking_tasks) <= k
        /\ k < exclusive_end_index(j, n_threads, n_max_tasks_per_thread, n_lacking_tasks)}

\* the worker ranges cover [0, n) exactly: each index in exactly one range, none outside
RangesCoverExactly ==
    /\ \A k \in 0..(pf_n - 1) :
           Cardinality({j \in 0..(n_threads - 1) : k \in WorkerRange(j)}) = 1
    /\ \A j \in 0..(n_threads - 1) : WorkerRange(j) \subseteq 0..(pf_n - 1)

\* C2: for every n >= 0 and every hint h >= 0, n = 0 included, a call of
\* particle_parallel_for arrives at worker ranges that cover [0, n) exactly.
PartitionCoverage ==
    pf_pc # "idle" => (pf_pc # "fault" /\ RangesCoverExactly)

\* C8: particle_parallel_for returns only after every worker it started has
\* finished; when it returns, function has been invoked exactly once for every
\* index in [0, n) and for no other index.
JoinBarrier ==
    pf_pc = "returned" =>
        /\ Len(threads) = n_threads
        /\ \A t \in DOMAIN threads : threads[t].pc = "done"
        /\ DOMAIN calls = 0..(pf_n - 1)
        /\ \A k \in DOMAIN calls : calls[k] = 1

\* a call with several workers and an uneven split has returned
JoinBarrierWitness ==
    /\ pf_pc = "returned"
    /\ n_threads >= 2
    /\ n_lacking_tasks >= 1
    /\ pf_n = MaxN

\* the number of indices inner_loop(j) runs over
WorkerSize(j) ==
    exclusive_end_index(j, n_threads, n_max_tasks_per_thread, n_lacking_tasks)
        - inclusive_start_index(j, n_threads, n_max_tasks_per_thread, n_lacking_tasks)

\* a call is past its computation of the partition, with n not divisible by the
\* worker count
UnevenSplit ==
    /\ pf_pc \in {"start", "join", "returned"}
    /\ n_threads >= 1
    /\ int_mod(pf_n, n_threads) # 0

\* C15: when n is not divisible by the worker count k, worker range sizes differ
\* by exactly one and the workers that receive one fewer element are the
\* earliest-indexed ones (worker 0 upward); the later workers receive the full size.
ShortfallToEarliest ==
    UnevenSplit =>
        \E r \in 1..(n_threads - 1) :
            /\ \A j \in 0..(r - 1) : WorkerSize(j) = n_max_tasks_per_thread - 1
            /\ \A j \in r..(n_threads - 1) : WorkerSize(j) = n_max_tasks_per_thread

\* C15, amended: when n is not divisible by k, worker range sizes differ by
\* exactly one and the workers that receive one fewer element are the
\* latest-indexed ones: the first k - r workers receive the full size
\* ceil(n / k) and the last r = k * ceil(n / k) - n workers one fewer.
ShortfallToLatest ==
    UnevenSplit =>
        LET r == n_lacking_tasks IN
        /\ r \in 1..(n_threads - 1)
        /\ r = n_threads * n_max_tasks_per_thread - pf_n
        /\ \A j \in 0..(n_threads - r - 1) : WorkerSize(j) = n_max_tasks_per_thread
        /\ \A j \in (n_threads - r)..(n_threads - 1) :
               WorkerSize(j) = n_max_tasks_per_thread - 1
        /\ \A t \in DOMAIN threads :
               threads[t].pc # "created" =>
                   threads[t].exclusive_end_index
                       = inclusive_start_index(threads[t].thread_index, n_threads,
                                               n_max_tasks_per_thread, n_lacking_tasks)
                         + WorkerSize(threads[t].thread_index)

\* the workers of an uneven split over three workers have all run: the first two
\* had the full size and the last one had one element fewer
ShortfallToLatestWitness ==
    /\ UnevenSplit
    /\ pf_pc = "join"
    /\ n_threads = 3
    /\ n_lacking_tasks = 1
    /\ \A t \in DOMAIN threads : threads[t].pc = "done"

\* the worker count c that the hint and the detected parallelism ask for
RequestedConcurrency ==
    IF pf_target > 0 THEN pf_target
    ELSE IF pf_hw > 0 THEN pf_hw
    ELSE DefaultConcurrency

\* C16: particle_parallel_for starts exactly k = min(n, c) workers, c being the
\* hint h when h > 0, the detected hardware parallelism when h = 0 and it is
\* detectable, and 4 otherwise; k never exceeds n.
WorkerCount ==
    /\ Len(threads) <= Min(pf_n, RequestedConcurrency)
    /\ pf_pc \in {"join", "returned"} =>
            /\ Len(threads) = Min(pf_n, RequestedConcurrency)
            /\ Len(threads) <= pf_n
            /\ \A t \in DOMAIN threads : threads[t].thread_index = t - 1

\* a call with no hint and no detectable parallelism has started four workers
\* for more than four indices
WorkerCountWitness ==
    /\ pf_pc = "returned"
    /\ pf_target = 0
    /\ pf_hw = 0
    /\ pf_n > DefaultConcurrency
    /\ Len(threads) = DefaultConcurrency

\* C25: for every n >= 1 and hint h >= 0 each of the k workers receives a
\* non-empty range: its start index is strictly below its end index and both lie
\* in [0, n]; no worker is started with nothing to do or with an inverted range.
NonEmptyRanges ==
    (pf_pc \in {"start", "join", "returned"} /\ pf_n >= 1) =>
        /\ n_threads >= 1
        /\ \A j \in 0..(n_threads - 1) :
               LET start == inclusive_start_index(j, n_threads, n_max_tasks_per_thread,
                                                  n_lacking_tasks)
                   end == exclusive_end_index(j, n_threads, n_max_tasks_per_thread,
                                              n_lacking_tasks)
               IN  0 <= start /\ start < end /\ end <= pf_n
        /\ \A t \in DOMAIN threads :
               threads[t].pc # "created" =>
                   /\ 0 < threads[t].exclusive_end_index
                   /\ threads[t].exclusive_end_index <= pf_n
                   /\ threads[t].k <= threads[t].exclusive_end_index
                   /\ threads[t].pc = "done" => DOMAIN calls # {}

\* an uneven split in which several workers have the smaller range, and every
\* worker has computed its range
NonEmptyRangesWitness ==
    /\ pf_pc = "join"
    /\ pf_n > n_threads
    /\ n_lacking_tasks >= 2
    /\ Len(threads) = n_threads
    /\ \A t \in DOMAIN threads : threads[t].pc # "created"

(***************************************************************************)
(* Properties of gl_particle_system::update                                *)
(***************************************************************************)

\* C9: the instance buffer is uploaded only after every instance index in
\* [0, particles.size()) has been written for this update; the backend never
\* reads a buffer in which some instances are updated and others are not.
UploadFullyUpdated ==
    up_pc = "upload" =>
        /\ \A i \in 1..Len(particles) :
               i \in DOMAIN instances /\ instances[i].written = up_count
        /\ \A k \in DOMAIN instances : instances[k].written = up_count

\* C10: two updates from the same particle array, trail count and dt end with
\* identical output buffers.
DeterministicOutput ==
    \A r1, r2 \in runs : r1.input = r2.input => r1.output = r2.output

\* C17: whenever update runs its per-particle loop, instances.size() equals
\* particles.size(), so that every instance index the loop writes is below
\* instances.size(); also when particles were added after an earlier update.
InstancesSizedToParticles ==
    up_pc = "loop" =>
        /\ Len(instances) = Len(particles)
        /\ \A a \in touched : a.array = "instances" => a.index < Len(instances)

\* C18: for every trail count and every non-empty particle list, update reads
\* and writes the particles array only at indices in [0, particles.size()).
ParticleAccessInBounds ==
    \A a \in touched :
        a.array = "particles" => (0 <= a.index /\ a.index < Len(particles))

\* C19: the work update does for particle index i writes only instances[i] and
\* particles[i], for every trail count: of the writes that land inside their
\* vector, none is at another index j # i.
WritesOwnIndexOnly ==
    \A a \in touched :
        (a.write /\ a.index < Len(IF a.array = "particles" THEN particles ELSE instances))
            => a.index = a.by

\* C21: for every n >= 0 and hint h >= 0, with a per-index function that
\* terminates, a particle_parallel_for call eventually returns: every worker
\* finishes its range and the caller is released from the join.
ParallelForReturns ==
    (pf_pc # "idle") ~>
        (pf_pc = "returned" /\ \A t \in DOMAIN threads : threads[t].pc = "done")

(***************************************************************************)
(* Properties of normalize_path                                            *)
(***************************************************************************)

\* C26: after normalize_path(path) the last character of path is not the
\* platform separator, for every input path (paths that end in several
\* consecutive separators included), and path contains no doubled separator "//".
NormalizedPath ==
    np_pc = "done" =>
        /\ Len(path) > 0 => path[Len(path)] # separator
        /\ \A i \in 1..(Len(path) - 1) : ~(path[i] = Slash /\ path[i + 1] = Slash)

====
